---- MODULE Spec2Model ----
(***************************************************************************)
(* Model of the vesting calculators of andrewvy/vested:                    *)
(*   src/vested-rs/src/lib.rs  (Grant with i32 fields, point query and     *)
(*                              full monthly schedule)                     *)
(*   src/vested/src/lib.rs     (the earlier Grant with u32 fields, point   *)
(*                              query only)                                *)
(* Both compute in f32.  The f32 values are modelled bit-exactly for the   *)
(* non-negative normal range the calculation stays in: a value is a record *)
(* [m, e] standing for m * 2^e with 2^23 <= m < 2^24 (or m = 0), and every *)
(* operation rounds to nearest, ties to even, as IEEE-754 binary32 does.   *)
(* All intermediate integers stay below 2^31.                              *)
(***************************************************************************)
EXTENDS Integers, Sequences, FiniteSets, TLC

(***************************************************************************)
(* f32 arithmetic                                                          *)
(***************************************************************************)
RECURSIVE Pow2Rec(_)
Pow2Rec(k) == IF k <= 0 THEN 1 ELSE 2 * Pow2Rec(k - 1)

Pow2Table == [k \in 0..30 |-> Pow2Rec(k)]

Pow2(k) == Pow2Table[k]

RECURSIVE BitLen(_)
BitLen(n) == IF n = 0 THEN 0 ELSE 1 + BitLen(n \div 2)

\* The three f32 values that are not of the form m * 2^e.
Zero == [m |-> 0, e |-> 0]
Inf == [m |-> -1, e |-> 0]
NaN == [m |-> -2, e |-> 0]

IsFinite(a) == a.m >= 0

\* n * 2^e (plus, when sticky, a non-zero fraction of the last place of n)
\* rounded to a 24-bit significand, to nearest, ties to even.
RoundF32(n, e, sticky) ==
    IF n = 0 THEN Zero
    ELSE LET len == BitLen(n)
         IN  IF len <= 24
             THEN [m |-> n * Pow2(24 - len), e |-> e - (24 - len)]
             ELSE LET s == len - 24
                      q == n \div Pow2(s)
                      rest == n % Pow2(s)
                      half == Pow2(s - 1)
                      up == \/ rest > half
                            \/ rest = half /\ (sticky \/ q % 2 = 1)
                      r == IF up THEN q + 1 ELSE q
                  IN  IF r = Pow2(24)
                      THEN [m |-> Pow2(23), e |-> e + s + 1]
                      ELSE [m |-> r, e |-> e + s]

\* `i as f32` for an integer below 2^31.  The calculation casts non-negative
\* integers only (the amount, and month counts past the is_before_cliff test);
\* a negative operand is outside the modelled range.
I2F(i) == IF i < 0 THEN NaN ELSE RoundF32(i, 0, FALSE)

\* a * b: the 48-bit product of the significands from 12-bit limbs.
FMul(a, b) ==
    IF ~IsFinite(a) \/ ~IsFinite(b)
    THEN IF a = NaN \/ b = NaN \/ a = Zero \/ b = Zero THEN NaN ELSE Inf
    ELSE IF a.m = 0 \/ b.m = 0 THEN Zero
    ELSE LET ah == a.m \div 4096
             al == a.m % 4096
             bh == b.m \div 4096
             bl == b.m % 4096
             ll == al * bl
             mid == ah * bl + al * bh + (ll \div 4096)
             hi == ah * bh + (mid \div 4096)
             lo == (mid % 4096) * 4096 + (ll % 4096)
         IN  \* product = hi * 2^24 + lo, with hi >= 2^22
             IF hi >= Pow2(23)
             THEN RoundF32(hi * 2 + (lo \div Pow2(23)),
                           a.e + b.e + 23, lo % Pow2(23) # 0)
             ELSE RoundF32(hi * 4 + (lo \div Pow2(22)),
                           a.e + b.e + 22, lo % Pow2(22) # 0)

\* Long division: the quotient bits of r / d, `steps` more of them.
RECURSIVE DivBits(_, _, _, _)
DivBits(q, r, d, steps) ==
    IF steps = 0 THEN [q |-> q, r |-> r]
    ELSE IF 2 * r >= d
         THEN DivBits(2 * q + 1, 2 * r - d, d, steps - 1)
         ELSE DivBits(2 * q, 2 * r, d, steps - 1)

\* a / b; a finite value over zero is infinite, zero over zero is NaN.
FDiv(a, b) ==
    IF ~IsFinite(a) \/ ~IsFinite(b) THEN NaN
    ELSE IF b.m = 0 THEN (IF a.m = 0 THEN NaN ELSE Inf)
    ELSE IF a.m = 0 THEN Zero
    ELSE LET d == DivBits(a.m \div b.m, a.m % b.m, b.m, 26)
         IN  RoundF32(d.q, a.e - b.e - 26, d.r # 0)

\* a <= b on non-negative values.
FLe(a, b) ==
    IF a = NaN \/ b = NaN THEN FALSE
    ELSE IF b = Inf THEN TRUE
    ELSE IF a = Inf THEN FALSE
    ELSE IF a.m = 0 THEN TRUE
    ELSE IF b.m = 0 THEN FALSE
    ELSE a.e < b.e \/ (a.e = b.e /\ a.m <= b.m)

\* The significand of the smaller operand aligned `d` places down below three
\* guard bits, and whether bits were shifted out.
Aligned(m, d) ==
    IF d > 27 THEN [n |-> 0, sticky |-> TRUE]
    ELSE [n |-> (m * 8) \div Pow2(d), sticky |-> (m * 8) % Pow2(d) # 0]

\* a + b on non-negative values.
FAdd(a, b) ==
    IF ~IsFinite(a) \/ ~IsFinite(b)
    THEN IF a = NaN \/ b = NaN THEN NaN ELSE Inf
    ELSE IF a.m = 0 THEN b
    ELSE IF b.m = 0 THEN a
    ELSE LET x == IF a.e >= b.e THEN a ELSE b
             y == IF a.e >= b.e THEN b ELSE a
             s == Aligned(y.m, x.e - y.e)
         IN  RoundF32(x.m * 8 + s.n, x.e - 3, s.sticky)

\* a - b on non-negative values with a >= b.
FSub(a, b) ==
    IF ~IsFinite(a) \/ ~IsFinite(b) THEN NaN
    ELSE IF b.m = 0 THEN a
    ELSE IF a = b THEN Zero
    ELSE LET s == Aligned(b.m, a.e - b.e)
         IN  IF s.sticky
             THEN RoundF32(a.m * 8 - s.n - 1, a.e - 3, TRUE)
             ELSE RoundF32(a.m * 8 - s.n, a.e - 3, FALSE)

\* `x.floor() as i32`: the cast saturates, and NaN casts to 0.
FloorI32(a) ==
    IF a = NaN THEN 0
    ELSE IF a = Inf THEN 2147483647
    ELSE IF a.m = 0 THEN 0
    ELSE IF a.e >= 8 THEN 2147483647
    ELSE IF a.e >= 0 THEN a.m * Pow2(a.e)
    ELSE IF a.e <= -24 THEN 0
    ELSE a.m \div Pow2(-a.e)

(***************************************************************************)
(* Calendar dates: chrono's Date<Utc> as [year, month, day], and the month *)
(* arithmetic of chronoutil that calculate_vesting_schedule calls.         *)
(***************************************************************************)
is_leap_year(year) == year % 4 = 0 /\ (year % 100 # 0 \/ year % 400 = 0)

\* chronoutil: the day clamped to the length of the month.
normalise_day(year, month, day) ==
    IF day <= 28 THEN day
    ELSE IF month = 2 THEN (IF is_leap_year(year) THEN 29 ELSE 28)
    ELSE IF day = 31 /\ month \in {4, 6, 9, 11} THEN 30
    ELSE day

\* date + RelativeDuration::months(months), for months >= 0.
shift_months(date, months) ==
    LET total == date.month + months
        y0 == date.year + (total \div 12)
        m0 == total % 12
        year == IF m0 < 1 THEN y0 - 1 ELSE y0
        month == IF m0 < 1 THEN m0 + 12 ELSE m0
    IN  [year |-> year, month |-> month,
         day |-> normalise_day(year, month, date.day)]

\* A rule whose first date is one month after its start.
DateRule_monthly_from_next(start, count) ==
    [i \in 1..count |-> shift_months(start, i)]

\* DateRule::monthly(start).with_count(count): start + months(i), i < count.
DateRule_monthly(start, count) ==
    [i \in 1..count |-> shift_months(start, i - 1)]

(***************************************************************************)
(* src/vested-rs: Grant                                                    *)
(***************************************************************************)
\* Whole months elapsed: one less while the day of the grant is not reached.
months_difference_elapsed(g, future_date) ==
    LET year_difference == future_date.year - g.grant_date.year
        months == (year_difference * 12)
                      + (future_date.month - g.grant_date.month)
    IN  IF future_date.day < g.grant_date.day THEN months - 1 ELSE months

months_difference(g, future_date) ==
    LET year_difference == future_date.year - g.grant_date.year
    IN  (year_difference * 12) + (future_date.month - g.grant_date.month)

\* The cliff month itself still counted as before the cliff.
is_before_cliff_inclusive(g, future_date) ==
    months_difference(g, future_date) <= g.vesting_schedule.cliff

\* The month before the cliff already counted as past it.
is_before_cliff_early(g, future_date) ==
    months_difference(g, future_date) < g.vesting_schedule.cliff - 1

is_before_cliff(g, future_date) ==
    months_difference(g, future_date) < g.vesting_schedule.cliff

\* The cliff percentage forgotten.
cliff_vested_amount_whole(g) == I2F(g.amount)

cliff_vested_amount(g) ==
    FMul(I2F(g.amount), g.vesting_schedule.cliff_percentage)

\* calculate_vested_amount without the early return at the cliff month.
calculate_vested_amount_run_no_lump(g, future_date) ==
    IF is_before_cliff(g, future_date)
    THEN [ret |-> Zero, divisors |-> << >>]
    ELSE IF months_difference(g, future_date) > g.vesting_schedule.length
    THEN [ret |-> I2F(g.amount), divisors |-> << >>]
    ELSE LET months_past_cliff ==
                 months_difference(g, future_date) - g.vesting_schedule.cliff
             divisor == g.vesting_schedule.length - g.vesting_schedule.cliff
             vested_per_month ==
                 FDiv(FSub(I2F(g.amount), cliff_vested_amount(g)), I2F(divisor))
         IN  [ret |-> FAdd(cliff_vested_amount(g),
                           FMul(vested_per_month, I2F(months_past_cliff))),
              divisors |-> << divisor >>]

\* calculate_vested_amount with the divisors it evaluated: [ret, divisors].
calculate_vested_amount_run(g, future_date) ==
    IF is_before_cliff(g, future_date)
    THEN [ret |-> Zero, divisors |-> << >>]
    ELSE IF months_difference(g, future_date) > g.vesting_schedule.length
    THEN [ret |-> I2F(g.amount), divisors |-> << >>]
    ELSE LET months_past_cliff ==
                 months_difference(g, future_date) - g.vesting_schedule.cliff
         IN  IF months_past_cliff = 0
             THEN [ret |-> cliff_vested_amount(g), divisors |-> << >>]
             ELSE LET remaining_amount_after_cliff ==
                          FSub(I2F(g.amount), cliff_vested_amount(g))
                      divisor ==
                          g.vesting_schedule.length - g.vesting_schedule.cliff
                      vested_per_month ==
                          FDiv(remaining_amount_after_cliff, I2F(divisor))
                      vested_after_cliff ==
                          FMul(vested_per_month, I2F(months_past_cliff))
                  IN  [ret |-> FAdd(cliff_vested_amount(g), vested_after_cliff),
                       divisors |-> << divisor >>]

calculate_vested_amount(g, future_date) ==
    calculate_vested_amount_run(g, future_date).ret

\* One period short: `length` dates instead of `length + 1`.
calculate_vesting_schedule_short(g) ==
    LET to_date == shift_months(g.grant_date, g.vesting_schedule.length)
        rule == DateRule_monthly(g.grant_date, g.vesting_schedule.length)
        periods ==
            [i \in 1..Len(rule) |->
                [date |-> rule[i],
                 cumulative_vested_amount |->
                     FloorI32(calculate_vested_amount(g, rule[i]))]]
    IN  [periods |-> periods, from_date |-> g.grant_date, to_date |-> to_date]

calculate_vesting_schedule(g) ==
    LET to_date == shift_months(g.grant_date, g.vesting_schedule.length)
        rule == DateRule_monthly(g.grant_date, g.vesting_schedule.length + 1)
        periods ==
            [i \in 1..Len(rule) |->
                [date |-> rule[i],
                 cumulative_vested_amount |->
                     FloorI32(calculate_vested_amount(g, rule[i]))]]
    IN  [periods |-> periods, from_date |-> g.grant_date, to_date |-> to_date]

(***************************************************************************)
(* src/vested: the earlier Grant, whose amount, cliff and length are u32   *)
(***************************************************************************)
vested_calculate_vested_amount_run(g, future_date) ==
    LET year_difference == future_date.year - g.grant_date.year
        months_diff ==
            (year_difference * 12) + (future_date.month - g.grant_date.month)
        before_cliff == months_diff < g.vesting_schedule.cliff
    IN  IF before_cliff
        THEN [ret |-> Zero, divisors |-> << >>]
        ELSE IF months_diff > g.vesting_schedule.length
        THEN [ret |-> I2F(g.amount), divisors |-> << >>]
        ELSE LET months_past_cliff == months_diff - g.vesting_schedule.cliff
                 vested_with_cliff ==
                     FMul(I2F(g.amount), g.vesting_schedule.cliff_percentage)
             IN  IF months_past_cliff = 0
                 THEN [ret |-> vested_with_cliff, divisors |-> << >>]
                 ELSE LET remaining_amount_after_cliff ==
                              FSub(I2F(g.amount), vested_with_cliff)
                          divisor == g.vesting_schedule.length
                                         - g.vesting_schedule.cliff
                          vested_per_month ==
                              FDiv(remaining_amount_after_cliff, I2F(divisor))
                          vested_after_cliff ==
                              FMul(vested_per_month, I2F(months_past_cliff))
                      IN  [ret |-> FAdd(vested_with_cliff, vested_after_cliff),
                           divisors |-> << divisor >>]

vested_calculate_vested_amount(g, future_date) ==
    vested_calculate_vested_amount_run(g, future_date).ret

(***************************************************************************)
(* Inputs                                                                  *)
(***************************************************************************)
\* Schedules of up to MaxLength months; the cliff ranges one month further,
\* so that cliff = length and the unvalidated cliff > length both occur.
MaxLength == 5

\* f32 constants: 0.0, 0.1 (0x3DCCCCCD), 0.25 and 1.0.
F_0_1 == [m |-> 13421773, e |-> -27]
F_0_25 == [m |-> 8388608, e |-> -25]
F_1 == [m |-> 8388608, e |-> -23]
Percentages == {Zero, F_0_1, F_0_25, F_1}

Amounts == {0, 29, 10000}

Date(y, m, d) == [year |-> y, month |-> m, day |-> d]
GrantDates == {Date(2020, 2, 6), Date(2019, 11, 30)}

\* Reference dates: two days of every month of 2020, and the grant dates.
Dates == {Date(2020, m, d) : m \in 1..12, d \in {1, 28}} \cup GrantDates

Grant(amount, grant_date, cliff_percentage, cliff, length) ==
    [amount |-> amount, grant_date |-> grant_date,
     vesting_schedule |-> [interval |-> "Monthly",
                           cliff_percentage |-> cliff_percentage,
                           cliff |-> cliff, length |-> length]]

\* The grants of the two test modules.
TestGrant48 == Grant(10000, Date(2020, 2, 6), F_0_25, 12, 48)
TestGrant12 == Grant(10000, Date(2020, 2, 6), F_0_25, 6, 12)

Grants ==
    {Grant(a, gd, p, c, l) : a \in Amounts, gd \in GrantDates,
                             p \in Percentages, c \in 0..(MaxLength + 1),
                             l \in 0..MaxLength}
    \cup {TestGrant48, TestGrant12}

\* A valid Grant: 0 <= cliff <= length, length > 0, cliff_percentage in
\* [0, 1], amount >= 0.
Valid(g) ==
    /\ 0 <= g.vesting_schedule.cliff
    /\ g.vesting_schedule.cliff <= g.vesting_schedule.length
    /\ g.vesting_schedule.length > 0
    /\ FLe(Zero, g.vesting_schedule.cliff_percentage)
    /\ FLe(g.vesting_schedule.cliff_percentage, F_1)
    /\ g.amount >= 0

(***************************************************************************)
(* The program: a Grant is constructed, never mutated, and queried.        *)
(***************************************************************************)
VARIABLES grant, future_date, call

vars == << grant, future_date, call >>

Init ==
    /\ grant \in Grants
    /\ future_date \in Dates
    /\ call = [op |-> "none"]

CalculateVestedAmount ==
    /\ call' = [op |-> "calculate_vested_amount",
                run |-> calculate_vested_amount_run(grant, future_date)]
    /\ UNCHANGED << grant, future_date >>

CalculateVestingSchedule ==
    /\ call' = [op |-> "calculate_vesting_schedule",
                ret |-> calculate_vesting_schedule(grant)]
    /\ UNCHANGED << grant, future_date >>

VestedCalculateVestedAmount ==
    /\ call' = [op |-> "vested::calculate_vested_amount",
                run |-> vested_calculate_vested_amount_run(grant, future_date)]
    /\ UNCHANGED << grant, future_date >>

Next ==
    \/ CalculateVestedAmount
    \/ CalculateVestingSchedule
    \/ VestedCalculateVestedAmount

Spec == Init /\ [][Next]_vars

(***************************************************************************)
(* Vocabulary of the properties                                            *)
(***************************************************************************)
IsCalc == call.op = "calculate_vested_amount"
IsVested == call.op = "vested::calculate_vested_amount"
IsPoint == IsCalc \/ IsVested
IsSchedule == call.op = "calculate_vesting_schedule"

cliff == grant.vesting_schedule.cliff
length == grant.vesting_schedule.length
percentage == grant.vesting_schedule.cliff_percentage

\* The calendar-month index difference of the reference date, written out.
md == (future_date.year - grant.grant_date.year) * 12
          + (future_date.month - grant.grant_date.month)

\* amount x cliff_percentage, in f32.
LumpSum == FMul(I2F(grant.amount), percentage)

MonthIndex(date) == date.year * 12 + (date.month - 1)

DaysInMonth(year, month) ==
    IF month = 2
    THEN (IF year % 4 = 0 /\ (year % 100 # 0 \/ year % 400 = 0) THEN 29 ELSE 28)
    ELSE IF month \in {4, 6, 9, 11} THEN 30 ELSE 31

\* `date` is `start` advanced by `months` calendar months (the day clamped to
\* the length of the month reached).
Advanced(start, months, date) ==
    /\ MonthIndex(date) = MonthIndex(start) + months
    /\ date.day = IF start.day <= DaysInMonth(date.year, date.month)
                  THEN start.day
                  ELSE DaysInMonth(date.year, date.month)

(***************************************************************************)
(* C1                                                                      *)
(***************************************************************************)
\* C1 as stated: for any valid Grant the vested amount is 0 at the grant date
\* and at every date whose months_difference is below the cliff.
C1_ZeroAtGrantDateAndBeforeCliff ==
    (Valid(grant) /\ IsPoint) =>
        ((future_date = grant.grant_date \/ md < cliff) => call.run.ret = Zero)

\* C1 as amended: for any valid Grant the vested amount is 0 at every date
\* whose months_difference is below the cliff, hence at the grant date when
\* cliff >= 1; with cliff = 0 the grant date is the cliff boundary and the
\* vested amount there is amount x cliff_percentage.
C1_ZeroBeforeCliff ==
    (Valid(grant) /\ IsPoint) =>
        /\ md < cliff => call.run.ret = Zero
        /\ future_date = grant.grant_date =>
               call.run.ret = IF cliff >= 1 THEN Zero ELSE LumpSum

C1_Witness ==
    /\ Valid(grant) /\ IsCalc
    /\ future_date = grant.grant_date
    /\ cliff >= 1 /\ grant.amount > 0 /\ percentage # Zero
    /\ call.run.ret = Zero

(***************************************************************************)
(* C2                                                                      *)
(***************************************************************************)
\* C2: for any valid Grant, cliff = length included, the vested amount is the
\* full amount at every date with months_difference >= length.
C2_FullAmountFromLength ==
    (Valid(grant) /\ IsCalc /\ md >= length) => call.run.ret = I2F(grant.amount)

(***************************************************************************)
(* C3                                                                      *)
(***************************************************************************)
\* C3: for a fixed valid Grant the vested amount is non-decreasing in the
\* reference date: a date with a months_difference at least that of the
\* queried date has a vested amount at least the returned one.
C3_Monotonic ==
    /\ (Valid(grant) /\ IsCalc) =>
           \A d2 \in Dates :
               md <= months_difference(grant, d2) =>
                   FLe(call.run.ret, calculate_vested_amount(grant, d2))
    /\ (Valid(grant) /\ IsVested) =>
           \A d2 \in Dates :
               md <= months_difference(grant, d2) =>
                   FLe(call.run.ret, vested_calculate_vested_amount(grant, d2))

(***************************************************************************)
(* C4                                                                      *)
(***************************************************************************)
\* C4: the cliff boundary is inclusive: for every valid Grant, at a date whose
\* months_difference equals the cliff, is_before_cliff is false and the vested
\* amount is exactly amount x cliff_percentage.
C4_CliffBoundaryInclusive ==
    (Valid(grant) /\ IsCalc /\ md = cliff) =>
        /\ ~is_before_cliff(grant, future_date)
        /\ call.run.ret = LumpSum

C4_Witness ==
    /\ Valid(grant) /\ IsCalc /\ md = cliff /\ cliff >= 1
    /\ call.run.ret # Zero
    /\ call.run.ret # I2F(grant.amount)

(***************************************************************************)
(* C5                                                                      *)
(***************************************************************************)
\* C5: for any valid Grant the schedule has exactly length + 1 periods, its
\* from_date is the grant date and its to_date is the grant date advanced by
\* length months.
C5_ScheduleShape ==
    (Valid(grant) /\ IsSchedule) =>
        /\ Len(call.ret.periods) = length + 1
        /\ call.ret.from_date = grant.grant_date
        /\ Advanced(grant.grant_date, length, call.ret.to_date)

C5_Witness ==
    /\ Valid(grant) /\ IsSchedule
    /\ Len(call.ret.periods) = 4
    /\ call.ret.to_date.year > grant.grant_date.year
    /\ call.ret.to_date.day < grant.grant_date.day

(***************************************************************************)
(* C6                                                                      *)
(***************************************************************************)
\* C6: for any valid Grant the schedule ends fully vested: the cumulative
\* amount of the last period, periods[length], is the amount, within 1 unit.
\* (The other half of C6, a first cumulative amount of 0, is C1 sampled at the
\* grant date.)
C6_EndsFullyVested ==
    (Valid(grant) /\ IsSchedule) =>
        call.ret.periods[length + 1].cumulative_vested_amount
            \in (grant.amount - 1)..(grant.amount + 1)

(***************************************************************************)
(* C7                                                                      *)
(***************************************************************************)
\* The linear-accrual value with the product taken before the quotient:
\* lump + (amount - lump) x (months - cliff) / (length - cliff).
ProductFirst(months) ==
    FAdd(LumpSum,
         FDiv(FMul(FSub(I2F(grant.amount), LumpSum), I2F(months - cliff)),
              I2F(length - cliff)))

\* The linear-accrual value with the monthly amount taken first:
\* lump + ((amount - lump) / (length - cliff)) x (months - cliff).
PerMonthFirst(months) ==
    FAdd(LumpSum,
         FMul(FDiv(FSub(I2F(grant.amount), LumpSum), I2F(length - cliff)),
              I2F(months - cliff)))

C8_ScheduleSamplesPointCalculation ==
    IsSchedule =>
        /\ Len(call.ret.periods) = length + 1
        /\ \A i \in 0..length :
               LET period == call.ret.periods[i + 1]
               IN  /\ Advanced(grant.grant_date, i, period.date)
                   /\ (period.date.year - grant.grant_date.year) * 12
                          + (period.date.month - grant.grant_date.month) = i
                   /\ period.cumulative_vested_amount =
                          FloorI32(calculate_vested_amount(grant, period.date))
                   /\ i > 0 =>
                          /\ MonthIndex(period.date) =
                                 MonthIndex(call.ret.periods[i].date) + 1
                          /\ call.ret.periods[i].cumulative_vested_amount
                                 <= period.cumulative_vested_amount

C8_Witness ==
    /\ IsSchedule /\ Valid(grant) /\ length >= 3
    /\ \E i \in 1..length :
           /\ call.ret.periods[i].cumulative_vested_amount
                  < call.ret.periods[i + 1].cumulative_vested_amount
           /\ I2F(call.ret.periods[i + 1].cumulative_vested_amount)
                  # calculate_vested_amount(grant, call.ret.periods[i + 1].date)
    /\ \E i \in 1..(length + 1) :
           call.ret.periods[i].date.day < grant.grant_date.day

(***************************************************************************)
(* C9                                                                      *)
(***************************************************************************)
\* C9: for every configuration with non-negative cliff and length (cliff =
\* length and cliff > length included) and every reference date, the divisor
\* length - cliff is positive whenever the division is evaluated, which is
\* only when cliff < months_difference <= length; with cliff = length the
\* result is 0 before the cliff, the cliff lump sum at exactly cliff months
\* and the full amount beyond.
C9_DivisorPositive ==
    IsPoint =>
        /\ \A k \in 1..Len(call.run.divisors) : call.run.divisors[k] > 0
        /\ call.run.divisors # << >> => (cliff < md /\ md <= length)
        /\ cliff = length =>
               call.run.ret = IF md < cliff THEN Zero
                              ELSE IF md = cliff THEN LumpSum
                              ELSE I2F(grant.amount)

C9_Witness ==
    /\ IsCalc /\ cliff = length /\ md = cliff
    /\ grant.amount > 0 /\ percentage \notin {Zero, F_1}
    /\ call.run.divisors = << >>
    /\ call.run.ret = LumpSum

(***************************************************************************)
(* C10                                                                     *)
(***************************************************************************)
\* C10: months_difference is (year(reference) - year(grant)) * 12 +
\* (month(reference) - month(grant)) and does not depend on the day of the
\* month: every date of the same calendar month as the reference date has the
\* same months_difference and the same vested amount; with the grant date
\* 2020-02-06 both 2021-02-01 and 2021-02-28 give 12.
C10_DayOfMonthIgnored ==
    /\ IsPoint =>
           /\ months_difference(grant, future_date) = md
           /\ \A d2 \in Dates :
                  (d2.year = future_date.year /\ d2.month = future_date.month) =>
                      /\ months_difference(grant, d2) = md
                      /\ IsCalc =>
                             calculate_vested_amount(grant, d2) = call.run.ret
                      /\ IsVested =>
                             vested_calculate_vested_amount(grant, d2)
                                 = call.run.ret
    /\ (IsPoint /\ grant = TestGrant48) =>
           /\ months_difference(grant, Date(2021, 2, 1)) = 12
           /\ months_difference(grant, Date(2021, 2, 28)) = 12
           /\ calculate_vested_amount(grant, Date(2021, 2, 1))
                  = calculate_vested_amount(grant, Date(2021, 2, 28))

C10_Witness ==
    /\ IsCalc /\ Valid(grant)
    /\ future_date.year > grant.grant_date.year
    /\ future_date.day < grant.grant_date.day
    /\ md = cliff /\ cliff >= 1
    /\ call.run.ret # Zero

====
